---------------------------- MODULE Spec2Model ----------------------------
(***************************************************************************)
(* Model of lesson_1_scraping_reddit/reddit_auth.py:                       *)
(* setup_reddit_connection(), the credential resolver.                     *)
(*                                                                         *)
(* The process environment, the optional encrypted-config module and the   *)
(* availability of the cryptography library are the inputs.  praw.Reddit,  *)
(* reddit.user.me() and the subreddit listing are external: each either    *)
(* returns or raises.  The outcome of an external call is free the first   *)
(* time it is made with given arguments and is remembered in `service`,    *)
(* so that a later call of the resolver made with the same arguments sees  *)
(* the same outcome ("unchanged inputs").                                  *)
(*                                                                         *)
(* The resolver is called MaxCalls times, one call after the other.  Each  *)
(* call has its own local variables (loc[c]), its own program position     *)
(* (pc[c]) and a history of the external operations it performed (log[c]). *)
(***************************************************************************)
EXTENDS Naturals, Sequences, FiniteSets

\* Number of successive calls of setup_reddit_connection that are modelled.
MaxCalls == 2

Calls == 1..MaxCalls

---------------------------------------------------------------------------
(* Python values *)

\* Python's None (also an unset environment variable, an unbound local).
None == "<None>"

\* Truth value of a str-or-None: None and "" are falsy.
Truthy(v) == v # None /\ v # ""

\* Built-in defaults of the API identity fields.
DEFAULT_CLIENT_ID     == "BQ9nZDrIpdsq_2d67qopWw"
DEFAULT_CLIENT_SECRET == "EE8yF4d_F6i-Kc30HPWtaRRobELhSQ"
DEFAULT_USER_AGENT    == "educational-scraper/1.0 (for academic research)"

\* Rate limits (requests per minute) of the two modes.
AUTH_RATE_LIMIT     == 600
READONLY_RATE_LIMIT == 60

---------------------------------------------------------------------------
(* Inputs *)

\* Values os.getenv can give for REDDIT_USERNAME / REDDIT_PASSWORD.
EnvUsernames == {None, "", "alice"}
EnvPasswords == {None, "", "secret123"}

\* Symmetric keys a config can carry; "not-a-key" is rejected by Fernet(key).
FernetKeys == {"K1", "K2"}
ConfigKeys == FernetKeys \cup {"not-a-key"}

\* A stored credential field: a Fernet token made with some key, the plain
\* base64 encoding of a text, or data that is neither.
Token(scheme, key, plain) == [scheme |-> scheme, key |-> key, plain |-> plain]

EncryptedUsernames ==
    { Token("fernet", "K1", "bob"), Token("fernet", "K2", "bob"),
      Token("fernet", "K1", ""),    Token("base64", None, "bob"),
      Token("garbage", None, None) }

EncryptedPasswords ==
    { Token("fernet", "K1", "hunter2"), Token("fernet", "K2", "hunter2"),
      Token("fernet", "K1", ""),        Token("base64", None, "hunter2"),
      Token("garbage", None, None) }

\* The names reddit_config_encrypted exports.
ConfigModule(eu, ep, k) ==
    [ ENCRYPTED_USERNAME   |-> eu,
      ENCRYPTED_PASSWORD   |-> ep,
      ENCRYPTION_KEY       |-> k,
      REDDIT_CLIENT_ID     |-> "config-client-id",
      REDDIT_CLIENT_SECRET |-> "config-client-secret",
      USER_AGENT           |-> "config-user-agent" ]

\* Placeholder contents of a module that cannot be imported.
NoConfigModule == ConfigModule(Token("garbage", None, None),
                               Token("garbage", None, None), "not-a-key")

\* How the import of reddit_config_encrypted ends:
\*   "absent"  -> ImportError, "broken" -> another Exception, "present" -> ok.
ConfigStates == {"absent", "broken", "present"}

VARIABLES
    environ,        \* os.environ: REDDIT_USERNAME, REDDIT_PASSWORD
    configState,    \* how importing reddit_config_encrypted ends
    configModule,   \* its contents when it is present
    cryptography,   \* TRUE iff cryptography.fernet can be imported
    schedule,       \* "sequential": one call after the other;
                    \* "interleaved": the calls run step by step together
    service,        \* outcomes of the external calls decided so far
    pc,             \* pc[c]: position of call c
    loc,            \* loc[c]: local variables of call c
    log,            \* log[c]: the operations call c performed, in order
    stdout,         \* stdout[c]: the lines call c printed
    result,         \* result[c]: the tuple call c returned
    raised,         \* raised[c]: the exception call c raised to its caller
    nextExc,        \* serial number of the next exception object
    ir,             \* the run of installs_required.main
    ms,             \* the run of manual_setup.main
    ss              \* the run of simple_setup.main

vars == << environ, configState, configModule, cryptography, schedule, service,
           pc, loc, log, stdout, result, raised, nextExc, ir, ms, ss >>

inputs == << environ, configState, configModule, cryptography, schedule >>

\* The state of setup_reddit_connection and of the installer scripts.  The
\* scripts and the resolver are separate programs: a step of one leaves the
\* other's state alone.
resolver == << environ, configState, configModule, cryptography, schedule,
               service, pc, loc, log, stdout, result, raised, nextExc >>

scripts == << ir, ms, ss >>

\* A script that is not being run.
NotStarted == [pc |-> "idle"]

---------------------------------------------------------------------------
(* Exceptions and clients *)

\* An exception object: where it was raised and which object it is.
Exc(origin, serial) == [origin |-> origin, serial |-> serial]
NoExc == Exc(None, 0)

\* A praw.Reddit instance is identified by the arguments it was built with.
Client(cid, secret, agent, user, pass) ==
    [ client_id |-> cid, client_secret |-> secret, user_agent |-> agent,
      username |-> user, password |-> pass ]
NoClient == Client(None, None, None, None, None)

\* Local variables of a call before line 36.
Unbound ==
    [ reddit_username |-> None, reddit_password |-> None,
      client_id |-> None, client_secret |-> None, user_agent |-> None,
      reddit |-> NoClient, auth_mode |-> None, rate_limit |-> 0,
      e |-> NoExc ]

NoResult == [reddit |-> NoClient, auth_mode |-> None, rate_limit |-> 0]

\* One entry of log[c]: the operation, the client it was made on (or that it
\* built) and the exception it raised (NoExc when it returned).
Event(op, client, exc) == [op |-> op, client |-> client, exc |-> exc]

\* Outcomes an external operation on a client may have: free unless this
\* operation was already performed with the same arguments.
Outcomes(op, client) ==
    IF \E o \in BOOLEAN : <<op, client, o>> \in service
    THEN { o \in BOOLEAN : <<op, client, o>> \in service }
    ELSE BOOLEAN

---------------------------------------------------------------------------
(* decrypt_credential *)

\* Variant of decrypt_credential whose handlers give back a placeholder text
\* instead of None when decoding raises.
decrypt_credential_placeholder(encrypted_data, key) ==
    LET d == IF cryptography
             THEN IF /\ key \in FernetKeys
                     /\ encrypted_data.scheme = "fernet"
                     /\ encrypted_data.key = key
                  THEN encrypted_data.plain ELSE None
             ELSE IF encrypted_data.scheme = "base64"
                  THEN encrypted_data.plain ELSE None
    IN IF d = None THEN "undecryptable" ELSE d

\* Fernet(key).decrypt(token): the plaintext, or None for an exception
\* (malformed key, token of another key, data that is no token).
FernetDecrypt(encrypted_data, key) ==
    IF /\ key \in FernetKeys
       /\ encrypted_data.scheme = "fernet"
       /\ encrypted_data.key = key
    THEN encrypted_data.plain
    ELSE None

\* base64.b64decode(data).decode(): the text, or None for an exception.
\* The decoded bytes of a Fernet token start with 0x80 and are not UTF-8.
Base64Decode(encrypted_data) ==
    IF encrypted_data.scheme = "base64" THEN encrypted_data.plain ELSE None

\* Variant of decrypt_credential that tries the base64 fallback after any
\* failure of the Fernet decryption, not only when the import fails.
decrypt_credential_fallback(encrypted_data, key) ==
    IF /\ cryptography
       /\ key \in FernetKeys
       /\ encrypted_data.scheme = "fernet"
       /\ encrypted_data.key = key
    THEN encrypted_data.plain
    ELSE IF encrypted_data.scheme = "base64" THEN encrypted_data.plain ELSE None

decrypt_credential(encrypted_data, key) ==
    IF cryptography
    THEN FernetDecrypt(encrypted_data, key)
    ELSE Base64Decode(encrypted_data)

---------------------------------------------------------------------------
(* Conditions of setup_reddit_connection *)

\* Variant of NeedsConfig that tries the config whatever the environment gave.
NeedsConfigAlways(u, p) == TRUE

\* Line 47: `if not reddit_username or not reddit_password`.
NeedsConfig(u, p) == ~Truthy(u) \/ ~Truthy(p)

\* Variant of HasCredentials with `or` in place of `and`.
HasCredentialsEither(u, p) == Truthy(u) \/ Truthy(p)

\* Variant of HasCredentials that tests for the empty string only.
HasCredentialsNotEmpty(u, p) == u # "" /\ p # ""

\* Lines 63 and 77: `reddit_username and reddit_password`.
HasCredentials(u, p) == Truthy(u) /\ Truthy(p)

\* Variant of Authenticated with the read-only rate.
AuthenticatedSlowRate ==
    [auth_mode |-> "authenticated", rate_limit |-> READONLY_RATE_LIMIT]

\* Lines 90-91.
Authenticated == [auth_mode |-> "authenticated", rate_limit |-> AUTH_RATE_LIMIT]

\* Variant of ReadOnly with the authenticated rate.
ReadOnlyFastRate == [auth_mode |-> "read-only", rate_limit |-> AUTH_RATE_LIMIT]

\* Lines 99-100 and 109-110.
ReadOnly == [auth_mode |-> "read-only", rate_limit |-> READONLY_RATE_LIMIT]

Terminal == {"returned", "raised"}

\* Call c may take a step: in the sequential schedule the calls before it
\* have ended; in the interleaved schedule every call may.
Running(c) ==
    IF c = 1 \/ schedule = "interleaved" THEN TRUE ELSE pc[c - 1] \in Terminal

---------------------------------------------------------------------------
Init ==
    /\ environ \in [REDDIT_USERNAME : EnvUsernames, REDDIT_PASSWORD : EnvPasswords]
    /\ configState \in ConfigStates
    /\ cryptography \in BOOLEAN
    /\ schedule = "sequential"
    /\ IF configState = "present"
       THEN \E eu \in EncryptedUsernames, ep \in EncryptedPasswords, k \in ConfigKeys :
                configModule = ConfigModule(eu, ep, k)
       ELSE configModule = NoConfigModule
    /\ service = {}
    /\ pc = [c \in Calls |-> "start"]
    /\ loc = [c \in Calls |-> Unbound]
    /\ log = [c \in Calls |-> << >>]
    /\ stdout = [c \in Calls |-> << >>]
    /\ result = [c \in Calls |-> NoResult]
    /\ raised = [c \in Calls |-> NoExc]
    /\ nextExc = 1
    /\ ir = NotStarted
    /\ ms = NotStarted
    /\ ss = NotStarted

\* Variant of GetEnv in which the credentials are module-level variables
\* shared by the calls: a pair another call holds is used before the
\* environment.
GetEnvShared(c) ==
    /\ Running(c)
    /\ pc[c] = "start"
    /\ LET holders == { d \in Calls \ {c} :
                          /\ pc[d] \in {"connect", "selfcheck"}
                          /\ Truthy(loc[d].reddit_username)
                          /\ Truthy(loc[d].reddit_password) }
           u == IF holders = {} THEN environ.REDDIT_USERNAME
                ELSE loc[CHOOSE d \in holders : TRUE].reddit_username
           p == IF holders = {} THEN environ.REDDIT_PASSWORD
                ELSE loc[CHOOSE d \in holders : TRUE].reddit_password
       IN loc' = [loc EXCEPT ![c] =
                 [ Unbound EXCEPT
                     !.client_id = DEFAULT_CLIENT_ID,
                     !.client_secret = DEFAULT_CLIENT_SECRET,
                     !.user_agent = DEFAULT_USER_AGENT,
                     !.reddit_username = u,
                     !.reddit_password = p ]]
    /\ log' = [log EXCEPT ![c] = Append(@, Event("getenv", NoClient, NoExc))]
    /\ pc' = [pc EXCEPT ![c] = "method2"]
    /\ UNCHANGED << inputs, scripts, service, stdout, result, raised, nextExc >>

\* Variant of GetEnv in which the credentials are kept in module-level
\* variables: a value left by the previous call is used before the environment.
GetEnvStale(c) ==
    /\ Running(c)
    /\ pc[c] = "start"
    /\ LET prev == IF c = 1 THEN Unbound ELSE loc[c - 1]
       IN loc' = [loc EXCEPT ![c] =
                 [ Unbound EXCEPT
                     !.client_id = DEFAULT_CLIENT_ID,
                     !.client_secret = DEFAULT_CLIENT_SECRET,
                     !.user_agent = DEFAULT_USER_AGENT,
                     !.reddit_username =
                         IF Truthy(prev.reddit_username)
                         THEN prev.reddit_username ELSE environ.REDDIT_USERNAME,
                     !.reddit_password =
                         IF Truthy(prev.reddit_password)
                         THEN prev.reddit_password ELSE environ.REDDIT_PASSWORD ]]
    /\ log' = [log EXCEPT ![c] = Append(@, Event("getenv", NoClient, NoExc))]
    /\ pc' = [pc EXCEPT ![c] = "method2"]
    /\ UNCHANGED << inputs, scripts, service, stdout, result, raised, nextExc >>

\* Lines 35-44: the defaults, then Method 1, the environment variables.
GetEnv(c) ==
    /\ Running(c)
    /\ pc[c] = "start"
    /\ loc' = [loc EXCEPT ![c] =
                 [ Unbound EXCEPT
                     !.client_id = DEFAULT_CLIENT_ID,
                     !.client_secret = DEFAULT_CLIENT_SECRET,
                     !.user_agent = DEFAULT_USER_AGENT,
                     !.reddit_username = environ.REDDIT_USERNAME,
                     !.reddit_password = environ.REDDIT_PASSWORD ]]
    /\ log' = [log EXCEPT ![c] = Append(@, Event("getenv", NoClient, NoExc))]
    /\ pc' = [pc EXCEPT ![c] = "method2"]
    /\ UNCHANGED << inputs, scripts, service, stdout, result, raised, nextExc >>

\* Line 47, condition false: both environment variables are non-empty,
\* Method 2 is skipped.
SkipConfig(c) ==
    /\ Running(c)
    /\ pc[c] = "method2"
    /\ ~NeedsConfig(loc[c].reddit_username, loc[c].reddit_password)
    /\ pc' = [pc EXCEPT ![c] = "connect"]
    /\ UNCHANGED << inputs, scripts, service, loc, log, stdout, result, raised, nextExc >>

\* Variant of ImportConfig without line 57: the user agent of the config is
\* not taken.
ImportConfigPartial(c) ==
    /\ Running(c)
    /\ pc[c] = "method2"
    /\ NeedsConfig(loc[c].reddit_username, loc[c].reddit_password)
    /\ IF configState = "present"
       THEN /\ loc' = [loc EXCEPT
                         ![c].client_id = configModule.REDDIT_CLIENT_ID,
                         ![c].client_secret = configModule.REDDIT_CLIENT_SECRET]
            /\ log' = [log EXCEPT ![c] = Append(@, Event("import", NoClient, NoExc))]
            /\ pc' = [pc EXCEPT ![c] = "decrypt"]
            /\ UNCHANGED nextExc
       ELSE /\ log' = [log EXCEPT ![c] =
                         Append(@, Event("import", NoClient,
                                         Exc("import:" \o configState, nextExc)))]
            /\ nextExc' = nextExc + 1
            /\ pc' = [pc EXCEPT ![c] = "connect"]
            /\ UNCHANGED loc
    /\ UNCHANGED << inputs, scripts, service, stdout, result, raised >>

\* Variant of ImportConfig without the `except Exception` clause of line 71:
\* an import that fails with something else than ImportError reaches the caller.
ImportConfigPropagates(c) ==
    /\ Running(c)
    /\ pc[c] = "method2"
    /\ NeedsConfig(loc[c].reddit_username, loc[c].reddit_password)
    /\ IF configState = "present"
       THEN /\ loc' = [loc EXCEPT
                         ![c].client_id = configModule.REDDIT_CLIENT_ID,
                         ![c].client_secret = configModule.REDDIT_CLIENT_SECRET,
                         ![c].user_agent = configModule.USER_AGENT]
            /\ log' = [log EXCEPT ![c] = Append(@, Event("import", NoClient, NoExc))]
            /\ pc' = [pc EXCEPT ![c] = "decrypt"]
            /\ UNCHANGED << nextExc, raised >>
       ELSE /\ log' = [log EXCEPT ![c] =
                         Append(@, Event("import", NoClient,
                                         Exc("import:" \o configState, nextExc)))]
            /\ nextExc' = nextExc + 1
            /\ IF configState = "broken"
               THEN /\ raised' = [raised EXCEPT ![c] =
                                    Exc("import:" \o configState, nextExc)]
                    /\ pc' = [pc EXCEPT ![c] = "raised"]
               ELSE /\ pc' = [pc EXCEPT ![c] = "connect"]
                    /\ UNCHANGED raised
            /\ UNCHANGED loc
    /\ UNCHANGED << inputs, scripts, service, stdout, result >>

\* Lines 47-57 and 68-73: the import of reddit_config_encrypted.  When it
\* succeeds the API identity fields are taken from the config; an ImportError
\* or any other Exception is swallowed and the locals stay as they are.
ImportConfig(c) ==
    /\ Running(c)
    /\ pc[c] = "method2"
    /\ NeedsConfig(loc[c].reddit_username, loc[c].reddit_password)
    /\ IF configState = "present"
       THEN /\ loc' = [loc EXCEPT
                         ![c].client_id = configModule.REDDIT_CLIENT_ID,
                         ![c].client_secret = configModule.REDDIT_CLIENT_SECRET,
                         ![c].user_agent = configModule.USER_AGENT]
            /\ log' = [log EXCEPT ![c] = Append(@, Event("import", NoClient, NoExc))]
            /\ pc' = [pc EXCEPT ![c] = "decrypt"]
            /\ UNCHANGED nextExc
       ELSE /\ log' = [log EXCEPT ![c] =
                         Append(@, Event("import", NoClient,
                                         Exc("import:" \o configState, nextExc)))]
            /\ nextExc' = nextExc + 1
            /\ pc' = [pc EXCEPT ![c] = "connect"]
            /\ UNCHANGED loc
    /\ UNCHANGED << inputs, scripts, service, stdout, result, raised >>

\* Variant of CompletePair without lines 63-66: the two fields stay as
\* decrypted.
CompletePairKeepsHalf(u, p) == << u, p >>

\* Lines 63-66: a pair with an empty or missing field is dropped whole.
CompletePair(u, p) ==
    IF ~HasCredentials(u, p) THEN << None, None >> ELSE << u, p >>

\* Variant of DecryptConfig that decrypts only the field the environment did
\* not give.
DecryptConfigFillsMissing(c) ==
    /\ Running(c)
    /\ pc[c] = "decrypt"
    /\ LET u == IF Truthy(loc[c].reddit_username)
                THEN loc[c].reddit_username
                ELSE decrypt_credential(configModule.ENCRYPTED_USERNAME,
                                        configModule.ENCRYPTION_KEY)
           p == IF Truthy(loc[c].reddit_password)
                THEN loc[c].reddit_password
                ELSE decrypt_credential(configModule.ENCRYPTED_PASSWORD,
                                        configModule.ENCRYPTION_KEY)
           pair == CompletePair(u, p)
       IN /\ loc' = [loc EXCEPT ![c].reddit_username = pair[1],
                                ![c].reddit_password = pair[2]]
          /\ log' = [log EXCEPT ![c] =
                       @ \o << Event("decrypt_username", NoClient, NoExc),
                               Event("decrypt_password", NoClient, NoExc) >>]
    /\ pc' = [pc EXCEPT ![c] = "connect"]
    /\ UNCHANGED << inputs, scripts, service, stdout, result, raised, nextExc >>

\* Variant of DecryptConfig that also stores a complete decrypted pair in
\* os.environ.
DecryptConfigExports(c) ==
    /\ Running(c)
    /\ pc[c] = "decrypt"
    /\ LET u == decrypt_credential(configModule.ENCRYPTED_USERNAME,
                                   configModule.ENCRYPTION_KEY)
           p == decrypt_credential(configModule.ENCRYPTED_PASSWORD,
                                   configModule.ENCRYPTION_KEY)
           pair == CompletePair(u, p)
       IN /\ loc' = [loc EXCEPT ![c].reddit_username = pair[1],
                                ![c].reddit_password = pair[2]]
          /\ environ' = IF pair[1] # None
                        THEN [REDDIT_USERNAME |-> pair[1], REDDIT_PASSWORD |-> pair[2]]
                        ELSE environ
          /\ log' = [log EXCEPT ![c] =
                       @ \o << Event("decrypt_username", NoClient, NoExc),
                               Event("decrypt_password", NoClient, NoExc) >>]
    /\ pc' = [pc EXCEPT ![c] = "connect"]
    /\ UNCHANGED << scripts, configState, configModule, cryptography, schedule,
                    service, stdout, result, raised, nextExc >>

\* Lines 59-66: both fields are decrypted, then an incomplete pair is dropped.
DecryptConfig(c) ==
    /\ Running(c)
    /\ pc[c] = "decrypt"
    /\ LET u == decrypt_credential(configModule.ENCRYPTED_USERNAME,
                                   configModule.ENCRYPTION_KEY)
           p == decrypt_credential(configModule.ENCRYPTED_PASSWORD,
                                   configModule.ENCRYPTION_KEY)
           pair == CompletePair(u, p)
       IN /\ loc' = [loc EXCEPT ![c].reddit_username = pair[1],
                                ![c].reddit_password = pair[2]]
          /\ log' = [log EXCEPT ![c] =
                       @ \o << Event("decrypt_username", NoClient, NoExc),
                               Event("decrypt_password", NoClient, NoExc) >>]
    /\ pc' = [pc EXCEPT ![c] = "connect"]
    /\ UNCHANGED << inputs, scripts, service, stdout, result, raised, nextExc >>

\* Variant of FirstClient that builds the client without credentials from
\* the built-in identity fields.
FirstClientDefaultIdentity(l) ==
    IF HasCredentials(l.reddit_username, l.reddit_password)
    THEN Client(l.client_id, l.client_secret, l.user_agent,
                l.reddit_username, l.reddit_password)
    ELSE Client(DEFAULT_CLIENT_ID, DEFAULT_CLIENT_SECRET, DEFAULT_USER_AGENT,
                None, None)

\* The client that lines 77-110 build first: with the credentials when the
\* pair is complete (lines 79-85), without them otherwise (lines 104-108).
FirstClient(l) ==
    IF HasCredentials(l.reddit_username, l.reddit_password)
    THEN Client(l.client_id, l.client_secret, l.user_agent,
                l.reddit_username, l.reddit_password)
    ELSE Client(l.client_id, l.client_secret, l.user_agent, None, None)

\* Lines 76-85 and 102-110: praw.Reddit(...) is called once.  If it raises,
\* the exception is caught by the handler of line 118.
CreateClient(c) ==
    /\ Running(c)
    /\ pc[c] = "connect"
    /\ LET l == loc[c]
           client == FirstClient(l)
           withCreds == HasCredentials(l.reddit_username, l.reddit_password)
       IN \E ok \in Outcomes("Reddit", client) :
            /\ service' = service \cup {<< "Reddit", client, ok >>}
            /\ IF ok
               THEN /\ log' = [log EXCEPT ![c] = Append(@, Event("Reddit", client, NoExc))]
                    /\ IF withCreds
                       THEN /\ loc' = [loc EXCEPT ![c].reddit = client]
                            /\ pc' = [pc EXCEPT ![c] = "selfcheck"]
                       ELSE /\ loc' = [loc EXCEPT
                                         ![c].reddit = client,
                                         ![c].auth_mode = ReadOnly.auth_mode,
                                         ![c].rate_limit = ReadOnly.rate_limit]
                            /\ pc' = [pc EXCEPT ![c] = "probe"]
                    /\ UNCHANGED nextExc
               ELSE /\ log' = [log EXCEPT ![c] =
                                 Append(@, Event("Reddit", client, Exc("Reddit", nextExc)))]
                    /\ loc' = [loc EXCEPT ![c].e = Exc("Reddit", nextExc)]
                    /\ nextExc' = nextExc + 1
                    /\ pc' = [pc EXCEPT ![c] = "except"]
    /\ UNCHANGED << inputs, scripts, stdout, result, raised >>

\* Variant of SelfCheck whose handler of line 92 prints a warning.
SelfCheckWarns(c) ==
    /\ Running(c)
    /\ pc[c] = "selfcheck"
    /\ \E ok \in Outcomes("user.me", loc[c].reddit) :
         /\ service' = service \cup {<< "user.me", loc[c].reddit, ok >>}
         /\ IF ok
            THEN /\ log' = [log EXCEPT ![c] =
                              Append(@, Event("user.me", loc[c].reddit, NoExc))]
                 /\ loc' = [loc EXCEPT ![c].auth_mode = Authenticated.auth_mode,
                                       ![c].rate_limit = Authenticated.rate_limit]
                 /\ pc' = [pc EXCEPT ![c] = "probe"]
                 /\ UNCHANGED << nextExc, stdout >>
            ELSE /\ log' = [log EXCEPT ![c] =
                              Append(@, Event("user.me", loc[c].reddit,
                                              Exc("user.me", nextExc)))]
                 /\ stdout' = [stdout EXCEPT ![c] = Append(@, "Authentication failed")]
                 /\ nextExc' = nextExc + 1
                 /\ pc' = [pc EXCEPT ![c] = "rebuild"]
                 /\ UNCHANGED loc
    /\ UNCHANGED << inputs, scripts, result, raised >>

\* Variant of SelfCheck that calls reddit.user.me() a second time when the
\* first call raised.
SelfCheckRetries(c) ==
    /\ Running(c)
    /\ pc[c] = "selfcheck"
    /\ \E ok \in Outcomes("user.me", loc[c].reddit) :
         /\ service' = service \cup {<< "user.me", loc[c].reddit, ok >>}
         /\ IF ok
            THEN /\ log' = [log EXCEPT ![c] =
                              Append(@, Event("user.me", loc[c].reddit, NoExc))]
                 /\ loc' = [loc EXCEPT ![c].auth_mode = Authenticated.auth_mode,
                                       ![c].rate_limit = Authenticated.rate_limit]
                 /\ pc' = [pc EXCEPT ![c] = "probe"]
                 /\ UNCHANGED nextExc
            ELSE /\ log' = [log EXCEPT ![c] =
                              Append(@, Event("user.me", loc[c].reddit,
                                              Exc("user.me", nextExc)))]
                 /\ nextExc' = nextExc + 1
                 /\ pc' = [pc EXCEPT ![c] =
                             IF \E i \in DOMAIN log[c] : log[c][i].op = "user.me"
                             THEN "rebuild" ELSE "selfcheck"]
                 /\ UNCHANGED loc
    /\ UNCHANGED << inputs, scripts, stdout, result, raised >>

\* Variant of SelfCheck without the inner try of line 88: a failed self-check
\* goes to the handler of line 118.
SelfCheckPropagates(c) ==
    /\ Running(c)
    /\ pc[c] = "selfcheck"
    /\ \E ok \in Outcomes("user.me", loc[c].reddit) :
         /\ service' = service \cup {<< "user.me", loc[c].reddit, ok >>}
         /\ IF ok
            THEN /\ log' = [log EXCEPT ![c] =
                              Append(@, Event("user.me", loc[c].reddit, NoExc))]
                 /\ loc' = [loc EXCEPT ![c].auth_mode = Authenticated.auth_mode,
                                       ![c].rate_limit = Authenticated.rate_limit]
                 /\ pc' = [pc EXCEPT ![c] = "probe"]
                 /\ UNCHANGED nextExc
            ELSE /\ log' = [log EXCEPT ![c] =
                              Append(@, Event("user.me", loc[c].reddit,
                                              Exc("user.me", nextExc)))]
                 /\ loc' = [loc EXCEPT ![c].e = Exc("user.me", nextExc)]
                 /\ nextExc' = nextExc + 1
                 /\ pc' = [pc EXCEPT ![c] = "except"]
    /\ UNCHANGED << inputs, scripts, stdout, result, raised >>

\* Lines 87-93: reddit.user.me().  Success decides the authenticated mode;
\* any Exception is caught at line 92 and the read-only client is rebuilt next.
SelfCheck(c) ==
    /\ Running(c)
    /\ pc[c] = "selfcheck"
    /\ \E ok \in Outcomes("user.me", loc[c].reddit) :
         /\ service' = service \cup {<< "user.me", loc[c].reddit, ok >>}
         /\ IF ok
            THEN /\ log' = [log EXCEPT ![c] =
                              Append(@, Event("user.me", loc[c].reddit, NoExc))]
                 /\ loc' = [loc EXCEPT ![c].auth_mode = Authenticated.auth_mode,
                                       ![c].rate_limit = Authenticated.rate_limit]
                 /\ pc' = [pc EXCEPT ![c] = "probe"]
                 /\ UNCHANGED nextExc
            ELSE /\ log' = [log EXCEPT ![c] =
                              Append(@, Event("user.me", loc[c].reddit,
                                              Exc("user.me", nextExc)))]
                 /\ nextExc' = nextExc + 1
                 /\ pc' = [pc EXCEPT ![c] = "rebuild"]
                 /\ UNCHANGED loc
    /\ UNCHANGED << inputs, scripts, stdout, result, raised >>

\* Variant of RebuildReadOnly that does not build a new client: after a
\* failed self-check the client with the credentials is kept, as read-only.
RebuildReadOnlyKeepsClient(c) ==
    /\ Running(c)
    /\ pc[c] = "rebuild"
    /\ loc' = [loc EXCEPT ![c].auth_mode = ReadOnly.auth_mode,
                          ![c].rate_limit = ReadOnly.rate_limit]
    /\ pc' = [pc EXCEPT ![c] = "probe"]
    /\ UNCHANGED << inputs, scripts, service, log, stdout, result, raised, nextExc >>

\* Variant of RebuildReadOnly that swallows a failure of the second
\* praw.Reddit call and goes on, read-only, with the client it has.
RebuildReadOnlyAbsorbs(c) ==
    /\ Running(c)
    /\ pc[c] = "rebuild"
    /\ LET l == loc[c]
           client == Client(l.client_id, l.client_secret, l.user_agent, None, None)
       IN \E ok \in Outcomes("Reddit", client) :
            /\ service' = service \cup {<< "Reddit", client, ok >>}
            /\ IF ok
               THEN /\ log' = [log EXCEPT ![c] = Append(@, Event("Reddit", client, NoExc))]
                    /\ loc' = [loc EXCEPT
                                 ![c].reddit = client,
                                 ![c].auth_mode = ReadOnly.auth_mode,
                                 ![c].rate_limit = ReadOnly.rate_limit]
                    /\ UNCHANGED nextExc
               ELSE /\ log' = [log EXCEPT ![c] =
                                 Append(@, Event("Reddit", client, Exc("Reddit", nextExc)))]
                    /\ loc' = [loc EXCEPT
                                 ![c].auth_mode = ReadOnly.auth_mode,
                                 ![c].rate_limit = ReadOnly.rate_limit]
                    /\ nextExc' = nextExc + 1
            /\ pc' = [pc EXCEPT ![c] = "probe"]
    /\ UNCHANGED << inputs, scripts, stdout, result, raised >>

\* Lines 93-100: after a failed self-check praw.Reddit is called again,
\* without the credentials.  This call is inside the try of line 76 but not
\* inside the try of line 88: if it raises, the handler of line 118 runs.
RebuildReadOnly(c) ==
    /\ Running(c)
    /\ pc[c] = "rebuild"
    /\ LET l == loc[c]
           client == Client(l.client_id, l.client_secret, l.user_agent, None, None)
       IN \E ok \in Outcomes("Reddit", client) :
            /\ service' = service \cup {<< "Reddit", client, ok >>}
            /\ IF ok
               THEN /\ log' = [log EXCEPT ![c] = Append(@, Event("Reddit", client, NoExc))]
                    /\ loc' = [loc EXCEPT
                                 ![c].reddit = client,
                                 ![c].auth_mode = ReadOnly.auth_mode,
                                 ![c].rate_limit = ReadOnly.rate_limit]
                    /\ pc' = [pc EXCEPT ![c] = "probe"]
                    /\ UNCHANGED nextExc
               ELSE /\ log' = [log EXCEPT ![c] =
                                 Append(@, Event("Reddit", client, Exc("Reddit", nextExc)))]
                    /\ loc' = [loc EXCEPT ![c].e = Exc("Reddit", nextExc)]
                    /\ nextExc' = nextExc + 1
                    /\ pc' = [pc EXCEPT ![c] = "except"]
    /\ UNCHANGED << inputs, scripts, stdout, result, raised >>

\* Variant of Probe that fetches the listing again for as long as it raises.
ProbeUntilSuccess(c) ==
    /\ Running(c)
    /\ pc[c] = "probe"
    /\ \E ok \in Outcomes("subreddit.hot", loc[c].reddit) :
         /\ service' = service \cup {<< "subreddit.hot", loc[c].reddit, ok >>}
         /\ IF ok
            THEN /\ log' = [log EXCEPT ![c] =
                              Append(@, Event("subreddit.hot", loc[c].reddit, NoExc))]
                 /\ result' = [result EXCEPT ![c] =
                                 [ reddit |-> loc[c].reddit,
                                   auth_mode |-> loc[c].auth_mode,
                                   rate_limit |-> loc[c].rate_limit ]]
                 /\ pc' = [pc EXCEPT ![c] = "returned"]
            ELSE UNCHANGED << log, result, pc >>
    /\ UNCHANGED << inputs, scripts, loc, stdout, raised, nextExc >>

\* Variant of Probe that fetches the listing only for an authenticated
\* client: a read-only client is returned without the probe.
ProbeSkippedWhenReadOnly(c) ==
    /\ Running(c)
    /\ pc[c] = "probe"
    /\ \E ok \in IF loc[c].auth_mode = ReadOnly.auth_mode
                 THEN {TRUE}
                 ELSE Outcomes("subreddit.hot", loc[c].reddit) :
         /\ service' = IF loc[c].auth_mode = ReadOnly.auth_mode
                       THEN service
                       ELSE service \cup {<< "subreddit.hot", loc[c].reddit, ok >>}
         /\ IF ok
            THEN /\ log' = [log EXCEPT ![c] =
                              IF loc[c].auth_mode = ReadOnly.auth_mode
                              THEN @
                              ELSE Append(@, Event("subreddit.hot", loc[c].reddit, NoExc))]
                 /\ result' = [result EXCEPT ![c] =
                                 [ reddit |-> loc[c].reddit,
                                   auth_mode |-> loc[c].auth_mode,
                                   rate_limit |-> loc[c].rate_limit ]]
                 /\ pc' = [pc EXCEPT ![c] = "returned"]
                 /\ UNCHANGED << loc, nextExc >>
            ELSE /\ log' = [log EXCEPT ![c] =
                              Append(@, Event("subreddit.hot", loc[c].reddit,
                                              Exc("subreddit.hot", nextExc)))]
                 /\ loc' = [loc EXCEPT ![c].e = Exc("subreddit.hot", nextExc)]
                 /\ nextExc' = nextExc + 1
                 /\ pc' = [pc EXCEPT ![c] = "except"]
                 /\ UNCHANGED result
    /\ UNCHANGED << inputs, scripts, stdout, raised >>

\* Lines 112-116: one item of the hot listing of r/python is fetched, then
\* the tuple is returned.  Any Exception goes to the handler of line 118.
Probe(c) ==
    /\ Running(c)
    /\ pc[c] = "probe"
    /\ \E ok \in Outcomes("subreddit.hot", loc[c].reddit) :
         /\ service' = service \cup {<< "subreddit.hot", loc[c].reddit, ok >>}
         /\ IF ok
            THEN /\ log' = [log EXCEPT ![c] =
                              Append(@, Event("subreddit.hot", loc[c].reddit, NoExc))]
                 /\ result' = [result EXCEPT ![c] =
                                 [ reddit |-> loc[c].reddit,
                                   auth_mode |-> loc[c].auth_mode,
                                   rate_limit |-> loc[c].rate_limit ]]
                 /\ pc' = [pc EXCEPT ![c] = "returned"]
                 /\ UNCHANGED << loc, nextExc >>
            ELSE /\ log' = [log EXCEPT ![c] =
                              Append(@, Event("subreddit.hot", loc[c].reddit,
                                              Exc("subreddit.hot", nextExc)))]
                 /\ loc' = [loc EXCEPT ![c].e = Exc("subreddit.hot", nextExc)]
                 /\ nextExc' = nextExc + 1
                 /\ pc' = [pc EXCEPT ![c] = "except"]
                 /\ UNCHANGED result
    /\ UNCHANGED << inputs, scripts, stdout, raised >>

\* The lines the handler prints (lines 119-124).
HandlerLines ==
    << "Connection failed", "Possible solutions:", "Check internet connection",
       "Verify Reddit API credentials", "Try running the cell again",
       "Install required packages" >>

\* Variant of ExceptHandler that raises a new exception object in place of
\* the one it caught.
ExceptHandlerWrapped(c) ==
    /\ Running(c)
    /\ pc[c] = "except"
    /\ stdout' = [stdout EXCEPT ![c] = @ \o HandlerLines]
    /\ raised' = [raised EXCEPT ![c] = Exc("handler", nextExc)]
    /\ nextExc' = nextExc + 1
    /\ pc' = [pc EXCEPT ![c] = "raised"]
    /\ UNCHANGED << inputs, scripts, service, loc, log, result >>

\* Lines 118-125: the handler prints the diagnostic and the remediation
\* lines, then `raise e` raises the caught exception object again.
ExceptHandler(c) ==
    /\ Running(c)
    /\ pc[c] = "except"
    /\ stdout' = [stdout EXCEPT ![c] = @ \o HandlerLines]
    /\ raised' = [raised EXCEPT ![c] = loc[c].e]
    /\ pc' = [pc EXCEPT ![c] = "raised"]
    /\ UNCHANGED << inputs, scripts, service, loc, log, result, nextExc >>

Next ==
    \E c \in Calls :
        \/ GetEnv(c)
        \/ SkipConfig(c)
        \/ ImportConfig(c)
        \/ DecryptConfig(c)
        \/ CreateClient(c)
        \/ SelfCheck(c)
        \/ RebuildReadOnly(c)
        \/ Probe(c)
        \/ ExceptHandler(c)

Spec == Init /\ [][Next]_vars

\* The interpreter keeps executing the statements of a call that has not
\* ended: a step that is possible is eventually taken.
SpecFair == Init /\ [][Next]_vars /\ WF_vars(Next)

\* The calls run interleaved step by step, as calls made from several
\* threads would.  Same inputs as Init, with one key and the stored fields
\* that this key decrypts or that nothing decrypts.
InitInterleaved ==
    /\ environ \in [REDDIT_USERNAME : EnvUsernames, REDDIT_PASSWORD : EnvPasswords]
    /\ configState \in ConfigStates
    /\ cryptography \in BOOLEAN
    /\ schedule = "interleaved"
    /\ IF configState = "present"
       THEN \E eu \in { Token("fernet", "K1", "bob"), Token("garbage", None, None) },
               ep \in { Token("fernet", "K1", "hunter2"), Token("base64", None, "hunter2") } :
                configModule = ConfigModule(eu, ep, "K1")
       ELSE configModule = NoConfigModule
    /\ service = {}
    /\ pc = [c \in Calls |-> "start"]
    /\ loc = [c \in Calls |-> Unbound]
    /\ log = [c \in Calls |-> << >>]
    /\ stdout = [c \in Calls |-> << >>]
    /\ result = [c \in Calls |-> NoResult]
    /\ raised = [c \in Calls |-> NoExc]
    /\ nextExc = 1
    /\ ir = NotStarted
    /\ ms = NotStarted
    /\ ss = NotStarted

SpecInterleaved == InitInterleaved /\ [][Next]_vars
---------------------------------------------------------------------------
(* Properties *)

\* The positions in log[c] of the operations named op, of those that
\* raised and of those that returned.
Did(c, op)       == { i \in DOMAIN log[c] : log[c][i].op = op }
DidFail(c, op)   == { i \in Did(c, op) : log[c][i].exc # NoExc }
DidReturn(c, op) == { i \in Did(c, op) : log[c][i].exc = NoExc }

Returned(c) == pc[c] = "returned"
Ended(c)    == pc[c] \in Terminal

\* C1: a call that returns "authenticated" had a non-empty username and a
\* non-empty password in effect, and made in that call a self-check on a
\* client built with exactly those credentials, which did not raise.
C1_AuthenticatedOnlyIfChecked ==
    \A c \in Calls :
        (Returned(c) /\ result[c].auth_mode = "authenticated") =>
            /\ loc[c].reddit_username \notin {None, ""}
            /\ loc[c].reddit_password \notin {None, ""}
            /\ \E i \in DidReturn(c, "user.me") :
                  /\ log[c][i].client.username = loc[c].reddit_username
                  /\ log[c][i].client.password = loc[c].reddit_password

C1_Witness ==
    \E c \in Calls : Returned(c) /\ result[c].auth_mode = "authenticated"

\* C2: every returned result is ("authenticated", 600) or ("read-only", 60);
\* no other pair of mode and rate limit is returned.
C2_RateLimitMatchesMode ==
    \A c \in Calls :
        Returned(c) =>
            \/ result[c].auth_mode = "authenticated" /\ result[c].rate_limit = 600
            \/ result[c].auth_mode = "read-only" /\ result[c].rate_limit = 60

C2_Witness ==
    \E c \in Calls : Returned(c) /\ result[c].rate_limit = 60

\* C3: when both environment variables are set and non-empty and the
\* self-check succeeds, the returned result is ("authenticated", 600).
C3_EnvCredentialsAuthenticate ==
    \A c \in Calls :
        ( /\ Returned(c)
          /\ environ.REDDIT_USERNAME \notin {None, ""}
          /\ environ.REDDIT_PASSWORD \notin {None, ""}
          /\ DidReturn(c, "user.me") # {} ) =>
            /\ result[c].auth_mode = "authenticated"
            /\ result[c].rate_limit = 600

C3_Witness ==
    \E c \in Calls :
        /\ Returned(c)
        /\ environ.REDDIT_USERNAME = "alice"
        /\ environ.REDDIT_PASSWORD = "secret123"
        /\ DidReturn(c, "user.me") # {}

\* C4: when both environment variables are unset and the config module
\* cannot be imported, a call whose final probe succeeds returns
\* ("read-only", 60) and has made no self-check.
C4_NoSourceIsReadOnly ==
    \A c \in Calls :
        ( /\ environ.REDDIT_USERNAME = None
          /\ environ.REDDIT_PASSWORD = None
          /\ configState # "present" ) =>
            /\ Did(c, "user.me") = {}
            /\ DidReturn(c, "subreddit.hot") # {} =>
                  /\ Returned(c)
                  /\ result[c].auth_mode = "read-only"
                  /\ result[c].rate_limit = 60

C4_Witness ==
    \E c \in Calls :
        /\ environ.REDDIT_USERNAME = None
        /\ environ.REDDIT_PASSWORD = None
        /\ configState = "absent"
        /\ Returned(c)

\* Decryption of a stored field fails: with the cryptography library, the
\* field is no Fernet token or is a token of another key than the config's
\* (wrong key), or the key is no Fernet key; without the library, the field
\* is not the base64 encoding of a text.
DecryptionFails(field, key) ==
    IF cryptography
    THEN field.scheme # "fernet" \/ field.key # key \/ key \notin FernetKeys
    ELSE field.scheme # "base64"

\* Call c has decrypted the config's fields.
Decrypted(c) == Did(c, "decrypt_password") # {}

\* C5: when the config was loaded and decryption of either field fails,
\* decrypt_credential gives None for that field (no exception), and the call
\* goes on as with no credentials: no credential is in effect, every client
\* is built without credentials, no self-check is made, and a result that
\* is returned is ("read-only", 60).
C5_FailedDecryptionIsNoCredentials ==
    LET eu == configModule.ENCRYPTED_USERNAME
        ep == configModule.ENCRYPTED_PASSWORD
        k  == configModule.ENCRYPTION_KEY
    IN /\ DecryptionFails(eu, k) => decrypt_credential(eu, k) = None
       /\ DecryptionFails(ep, k) => decrypt_credential(ep, k) = None
       /\ \A c \in Calls :
            (Decrypted(c) /\ (DecryptionFails(eu, k) \/ DecryptionFails(ep, k))) =>
                /\ loc[c].reddit_username = None
                /\ loc[c].reddit_password = None
                /\ Did(c, "user.me") = {}
                /\ \A i \in Did(c, "Reddit") :
                      /\ log[c][i].client.username = None
                      /\ log[c][i].client.password = None
                /\ raised[c].origin \in {None, "Reddit", "subreddit.hot"}
                /\ Returned(c) =>
                      /\ result[c].auth_mode = "read-only"
                      /\ result[c].rate_limit = 60

\* One field decrypts, the other does not, and the call has returned.
C5_Witness ==
    \E c \in Calls :
        /\ Returned(c)
        /\ Decrypted(c)
        /\ ~DecryptionFails(configModule.ENCRYPTED_USERNAME, configModule.ENCRYPTION_KEY)
        /\ configModule.ENCRYPTED_USERNAME.plain = "bob"
        /\ DecryptionFails(configModule.ENCRYPTED_PASSWORD, configModule.ENCRYPTION_KEY)

C7_ProbeFailureIsReraised ==
    \A c \in Calls :
        \A i \in DidFail(c, "subreddit.hot") :
            /\ ~Returned(c)
            /\ pc[c] = "raised" =>
                  /\ raised[c] = log[c][i].exc
                  /\ \E n \in DOMAIN stdout[c] :
                        stdout[c][n] = "Check internet connection"

C7_Witness ==
    \E c \in Calls :
        /\ pc[c] = "raised"
        /\ raised[c].origin = "subreddit.hot"

C10_Idempotent ==
    \A c \in Calls :
        (c + 1 \in Calls /\ Ended(c + 1)) =>
            /\ pc[c + 1] = pc[c]
            /\ result[c + 1].auth_mode = result[c].auth_mode
            /\ result[c + 1].rate_limit = result[c].rate_limit
            /\ raised[c + 1].origin = raised[c].origin

\* Two calls in a row took their credentials from the config and returned.
C10_Witness ==
    /\ Returned(1)
    /\ Returned(2)
    /\ Decrypted(1)
    /\ result[2].auth_mode = "authenticated"

\* Both environment variables are set and non-empty.
EnvComplete ==
    /\ environ.REDDIT_USERNAME \notin {None, ""}
    /\ environ.REDDIT_PASSWORD \notin {None, ""}

\* C11: when both environment variables are non-empty, the call never loads
\* the config and never decrypts, whatever the self-check and the probe give:
\* every client it builds carries the environment pair or no credentials.
C11_EnvironmentWins ==
    \A c \in Calls :
        EnvComplete =>
            /\ Did(c, "import") = {}
            /\ Did(c, "decrypt_username") = {}
            /\ Did(c, "decrypt_password") = {}
            /\ \A i \in Did(c, "Reddit") :
                  \/ /\ log[c][i].client.username = environ.REDDIT_USERNAME
                     /\ log[c][i].client.password = environ.REDDIT_PASSWORD
                  \/ /\ log[c][i].client.username = None
                     /\ log[c][i].client.password = None

\* The self-check on the environment pair failed and the call has ended.
C11_Witness ==
    \E c \in Calls :
        /\ EnvComplete
        /\ configState = "present"
        /\ DidFail(c, "user.me") # {}
        /\ Ended(c)

\* Call c has resolved its credentials and no complete pair is in effect.
NoPair(c) ==
    /\ pc[c] \notin {"start", "method2", "decrypt"}
    /\ \/ loc[c].reddit_username \in {None, ""}
       \/ loc[c].reddit_password \in {None, ""}

\* The identity fields of a client are the built-in defaults.
DefaultIdentity(client) ==
    /\ client.client_id = "BQ9nZDrIpdsq_2d67qopWw"
    /\ client.client_secret = "EE8yF4d_F6i-Kc30HPWtaRRobELhSQ"
    /\ client.user_agent = "educational-scraper/1.0 (for academic research)"

\* The identity fields of a client are the overrides of the config.
ConfigIdentity(client) ==
    /\ client.client_id = configModule.REDDIT_CLIENT_ID
    /\ client.client_secret = configModule.REDDIT_CLIENT_SECRET
    /\ client.user_agent = configModule.USER_AGENT

\* C12, as stated: whenever no source yielded a complete pair, the client is
\* built without credentials and with the built-in default identity fields.
C12_Original ==
    \A c \in Calls :
        NoPair(c) =>
            \A i \in Did(c, "Reddit") :
                /\ log[c][i].client.username = None
                /\ log[c][i].client.password = None
                /\ DefaultIdentity(log[c][i].client)

\* C12, amended: whenever no source yielded a complete pair, the client is
\* built without credentials, with the built-in default identity fields when
\* the config was not loaded in that call and with the config's overrides
\* when it was loaded (the run where decryption of a field failed).
C12_UnauthenticatedIdentity ==
    \A c \in Calls :
        NoPair(c) =>
            /\ pc[c] # "connect" => Did(c, "Reddit") # {}
            /\ \A i \in Did(c, "Reddit") :
                  /\ log[c][i].client.username = None
                  /\ log[c][i].client.password = None
                  /\ IF DidReturn(c, "import") # {}
                     THEN ConfigIdentity(log[c][i].client)
                     ELSE DefaultIdentity(log[c][i].client)

\* The config was loaded, a field did not decrypt, and the call returned.
C12_Witness ==
    \E c \in Calls :
        /\ Returned(c)
        /\ Decrypted(c)
        /\ NoPair(c)
        /\ result[c].reddit.client_id = "config-client-id"

\* The steps that C13 says are made at most once in a call.
OnceOnly == {"import", "decrypt_username", "decrypt_password",
             "user.me", "subreddit.hot"}

\* C13: within one call the config is loaded at most once, each field is
\* decrypted at most once, the self-check is called at most once and the
\* probe is called at most once.
C13_NoRetries ==
    \A c \in Calls :
        \A op \in OnceOnly : Cardinality(Did(c, op)) <= 1

\* A call that made each of these steps, with a failed self-check.
C13_Witness ==
    \E c \in Calls :
        /\ Ended(c)
        /\ DidFail(c, "user.me") # {}
        /\ \A op \in OnceOnly : Cardinality(Did(c, op)) = 1

AloneOutcome ==
    LET loaded == ~EnvComplete /\ configState = "present"
        du == IF loaded
              THEN decrypt_credential(configModule.ENCRYPTED_USERNAME,
                                      configModule.ENCRYPTION_KEY)
              ELSE None
        dp == IF loaded
              THEN decrypt_credential(configModule.ENCRYPTED_PASSWORD,
                                      configModule.ENCRYPTION_KEY)
              ELSE None
        fromConfig == du \notin {None, ""} /\ dp \notin {None, ""}
        u == IF EnvComplete THEN environ.REDDIT_USERNAME
             ELSE IF fromConfig THEN du ELSE None
        p == IF EnvComplete THEN environ.REDDIT_PASSWORD
             ELSE IF fromConfig THEN dp ELSE None
        cid == IF loaded THEN configModule.REDDIT_CLIENT_ID
               ELSE "BQ9nZDrIpdsq_2d67qopWw"
        sec == IF loaded THEN configModule.REDDIT_CLIENT_SECRET
               ELSE "EE8yF4d_F6i-Kc30HPWtaRRobELhSQ"
        agt == IF loaded THEN configModule.USER_AGENT
               ELSE "educational-scraper/1.0 (for academic research)"
        withPair == Client(cid, sec, agt, u, p)
        without  == Client(cid, sec, agt, None, None)
        Ok(op, client) == << op, client, TRUE >> \in service
        fails == [pc |-> "raised", auth_mode |-> None, rate_limit |-> 0]
        probed(client, mode, rate) ==
            IF Ok("subreddit.hot", client)
            THEN [pc |-> "returned", auth_mode |-> mode, rate_limit |-> rate]
            ELSE fails
        readOnly == IF Ok("Reddit", without)
                    THEN probed(without, "read-only", 60)
                    ELSE fails
    IN IF u = None
       THEN readOnly
       ELSE IF ~Ok("Reddit", withPair)
            THEN fails
            ELSE IF Ok("user.me", withPair)
                 THEN probed(withPair, "authenticated", 600)
                 ELSE readOnly

\* A step of call c leaves the variables of every other call as they are.
StepsAreLocal ==
    \A c \in Calls :
        pc'[c] # pc[c] =>
            \A d \in Calls \ {c} :
                /\ pc'[d] = pc[d]
                /\ loc'[d] = loc[d]
                /\ log'[d] = log[d]
                /\ stdout'[d] = stdout[d]
                /\ result'[d] = result[d]
                /\ raised'[d] = raised[d]

\* C15: when the calls run interleaved step by step, each call ends as it
\* would running alone with the same inputs and the same external outcomes,
\* with the same auth_mode and rate_limit, and no step of one call changes
\* a variable of another call or an input.
C15_CallsAreIndependent ==
    /\ [](\A c \in Calls :
            Ended(c) =>
                /\ pc[c] = AloneOutcome.pc
                /\ result[c].auth_mode = AloneOutcome.auth_mode
                /\ result[c].rate_limit = AloneOutcome.rate_limit)
    /\ [][StepsAreLocal /\ inputs' = inputs]_vars

\* One call has returned while another, started before it ended, is still
\* at its self-check.
C15_Witness ==
    \E c, d \in Calls :
        /\ c # d
        /\ schedule = "interleaved"
        /\ Returned(c)
        /\ pc[d] = "selfcheck"

\* What decrypt_credential gives for the two stored fields.
DecryptedUsername ==
    decrypt_credential(configModule.ENCRYPTED_USERNAME, configModule.ENCRYPTION_KEY)
DecryptedPassword ==
    decrypt_credential(configModule.ENCRYPTED_PASSWORD, configModule.ENCRYPTION_KEY)

\* C16: when the config was loaded and either decrypted field is empty or
\* None, both reddit_username and reddit_password are None afterwards, every
\* client is built without credentials and no self-check is made.
C16_HalfPairIsDiscarded ==
    \A c \in Calls :
        ( /\ Decrypted(c)
          /\ \/ DecryptedUsername \in {None, ""}
             \/ DecryptedPassword \in {None, ""} ) =>
            /\ loc[c].reddit_username = None
            /\ loc[c].reddit_password = None
            /\ Did(c, "user.me") = {}
            /\ \A i \in Did(c, "Reddit") :
                  /\ log[c][i].client.username = None
                  /\ log[c][i].client.password = None

\* The username decrypts to "bob", the password to the empty string.
C16_Witness ==
    \E c \in Calls :
        /\ Decrypted(c)
        /\ DecryptedUsername = "bob"
        /\ DecryptedPassword = ""
        /\ Did(c, "Reddit") # {}

\* C17: after a failed self-check the next operation is a construction of a
\* client without credentials and with the client id, client secret and user
\* agent of the client that was checked; and a returned client carries a
\* username and a password exactly when the returned mode is "authenticated".
C17_RebuiltClientKeepsIdentity ==
    \A c \in Calls :
        /\ \A i \in DidFail(c, "user.me") :
              pc[c] # "rebuild" =>
                  /\ i + 1 \in Did(c, "Reddit")
                  /\ log[c][i + 1].client.username = None
                  /\ log[c][i + 1].client.password = None
                  /\ log[c][i + 1].client.client_id = log[c][i].client.client_id
                  /\ log[c][i + 1].client.client_secret = log[c][i].client.client_secret
                  /\ log[c][i + 1].client.user_agent = log[c][i].client.user_agent
                  /\ i + 1 \in DidReturn(c, "Reddit") =>
                        loc[c].reddit = log[c][i + 1].client
        /\ Returned(c) =>
              ( result[c].auth_mode = "authenticated"
                <=> /\ result[c].reddit.username \notin {None, ""}
                    /\ result[c].reddit.password \notin {None, ""} )

\* A call with the config's identity fields returned after a failed
\* self-check.
C17_Witness ==
    \E c \in Calls :
        /\ Returned(c)
        /\ DidFail(c, "user.me") # {}
        /\ result[c].reddit.client_id = "config-client-id"

\* C18: every call that returns has made exactly one probe, which succeeded,
\* was its last operation and was made on the client that is returned; when
\* the probe is made auth_mode and rate_limit are already decided, and they
\* are what is returned.
C18_ProbeIsLast ==
    \A c \in Calls :
        /\ (pc[c] = "probe" \/ Did(c, "subreddit.hot") # {}) =>
              /\ loc[c].auth_mode \in {"authenticated", "read-only"}
              /\ loc[c].rate_limit \in {600, 60}
        /\ Returned(c) =>
              /\ Did(c, "subreddit.hot") = {Len(log[c])}
              /\ log[c][Len(log[c])].exc = NoExc
              /\ log[c][Len(log[c])].client = result[c].reddit
              /\ result[c].auth_mode = loc[c].auth_mode
              /\ result[c].rate_limit = loc[c].rate_limit

\* A read-only call and an authenticated one cannot be in one behaviour of
\* the sequential schedule; the read-only return after a failed self-check.
C18_Witness ==
    \E c \in Calls :
        /\ Returned(c)
        /\ result[c].auth_mode = "read-only"
        /\ Did(c, "user.me") # {}
        /\ Did(c, "subreddit.hot") # {}

\* C19: when no complete pair is in effect, the call makes exactly one
\* construction of a client, without credentials, makes no self-check, and
\* once the client is built the mode is "read-only" and the rate limit 60.
C19_NoPairIsReadOnly ==
    \A c \in Calls :
        (NoPair(c) /\ pc[c] # "connect") =>
            /\ Cardinality(Did(c, "Reddit")) = 1
            /\ \A i \in Did(c, "Reddit") :
                  /\ log[c][i].client.username = None
                  /\ log[c][i].client.password = None
            /\ Did(c, "user.me") = {}
            /\ DidReturn(c, "Reddit") # {} =>
                  /\ loc[c].auth_mode = "read-only"
                  /\ loc[c].rate_limit = 60
            /\ Returned(c) =>
                  /\ result[c].auth_mode = "read-only"
                  /\ result[c].rate_limit = 60

\* Only REDDIT_USERNAME is set and the config cannot be imported.
C19_Witness ==
    \E c \in Calls :
        /\ Returned(c)
        /\ environ.REDDIT_USERNAME = "alice"
        /\ environ.REDDIT_PASSWORD = None
        /\ configState = "absent"

\* C20, for one stored field: with the library, the result is the plaintext
\* of a token of the config's key and None otherwise, also for a field that
\* base64 would decode; without the library, the result is the base64
\* decoding of the field, or None when the field is not base64 text.
FallbackOnlyWithoutLibrary(field, key) ==
    IF cryptography
    THEN IF field.scheme = "fernet" /\ field.key = key
         THEN decrypt_credential(field, key) = field.plain
         ELSE decrypt_credential(field, key) = None
    ELSE IF field.scheme = "base64"
         THEN decrypt_credential(field, key) = field.plain
         ELSE decrypt_credential(field, key) = None

\* C20: decrypt_credential uses the base64 fallback only when the library is
\* unavailable; a call that decrypted holds a complete pair only if both
\* fields decoded that way.
C20_FallbackOnlyOnImportError ==
    /\ FallbackOnlyWithoutLibrary(configModule.ENCRYPTED_USERNAME,
                                  configModule.ENCRYPTION_KEY)
    /\ FallbackOnlyWithoutLibrary(configModule.ENCRYPTED_PASSWORD,
                                  configModule.ENCRYPTION_KEY)
    /\ \A c \in Calls :
          ( /\ Decrypted(c)
            /\ cryptography
            /\ \/ configModule.ENCRYPTED_USERNAME.scheme = "base64"
               \/ configModule.ENCRYPTED_PASSWORD.scheme = "base64" ) =>
              /\ loc[c].reddit_username = None
              /\ loc[c].reddit_password = None

\* The library is available and both stored fields are plain base64.
C20_Witness ==
    \E c \in Calls :
        /\ Decrypted(c)
        /\ cryptography
        /\ configModule.ENCRYPTED_USERNAME.scheme = "base64"
        /\ configModule.ENCRYPTED_PASSWORD.scheme = "base64"
        /\ Returned(c)

\* C21: a call that returns has printed nothing, whatever happened at config
\* loading, decryption or self-check; lines are printed only in a call that
\* ends by raising, and they are the handler's lines.
C21_ReturnPrintsNothing ==
    \A c \in Calls :
        /\ Returned(c) => stdout[c] = << >>
        /\ stdout[c] # << >> => (pc[c] = "raised" /\ stdout[c] = HandlerLines)
        /\ pc[c] \notin {"raised"} => stdout[c] = << >>

\* A call returned after a failed decryption or a failed self-check.
C21_Witness ==
    \E c \in Calls :
        /\ Returned(c)
        /\ DidFail(c, "user.me") # {}
        /\ stdout[c] = << >>

\* C22: every call ends, by returning or by raising.
C22_Terminates ==
    \A c \in Calls : <>Ended(c)

\* The last call has ended after a failed self-check and a failed probe.
C22_Witness ==
    /\ \A c \in Calls : Ended(c)
    /\ \E c \in Calls : DidFail(c, "user.me") # {} /\ DidFail(c, "subreddit.hot") # {}

\* C23: the username and the password given to a client are both the
\* environment's values or both the decrypted values of the config; the
\* environment's pair is used only when it is complete.
C23_PairFromOneSource ==
    \A c \in Calls :
        \A i \in Did(c, "Reddit") :
            LET u == log[c][i].client.username
                p == log[c][i].client.password
            IN \/ u = None /\ p = None
               \/ /\ EnvComplete
                  /\ u = environ.REDDIT_USERNAME
                  /\ p = environ.REDDIT_PASSWORD
               \/ /\ ~EnvComplete
                  /\ Decrypted(c)
                  /\ u = DecryptedUsername
                  /\ p = DecryptedPassword

\* Only REDDIT_USERNAME is set, the config decrypts, and the client is built
\* with the config's username.
C23_Witness ==
    \E c \in Calls :
        /\ environ.REDDIT_USERNAME = "alice"
        /\ environ.REDDIT_PASSWORD \in {None, ""}
        /\ \E i \in Did(c, "Reddit") :
              /\ log[c][i].client.username = "bob"
              /\ log[c][i].client.password = "hunter2"

\* C24: at every construction of a client the client id, client secret and
\* user agent are all three the config's overrides when the config import
\* succeeded in that call and all three the built-in defaults otherwise, so
\* the defaults when both environment variables are set or the import fails.
C24_IdentityAllOrNothing ==
    \A c \in Calls :
        \A i \in Did(c, "Reddit") :
            /\ IF DidReturn(c, "import") # {}
               THEN ConfigIdentity(log[c][i].client)
               ELSE DefaultIdentity(log[c][i].client)
            /\ (EnvComplete \/ configState # "present") =>
                  DefaultIdentity(log[c][i].client)
            /\ (~EnvComplete /\ configState = "present") =>
                  ConfigIdentity(log[c][i].client)

\* Both environment variables are set, a config provider exists, and the
\* client was built with the defaults.
C24_Witness ==
    \E c \in Calls :
        /\ EnvComplete
        /\ configState = "present"
        /\ Returned(c)
        /\ result[c].reddit.client_id = "BQ9nZDrIpdsq_2d67qopWw"
---------------------------------------------------------------------------
(* The installer scripts *)

\* At most this many packages of a script's list are not installed in the
\* interpreter or environment the script finds.
MaxMissing == 2

\* At most this many pip installs of one run end with CalledProcessError.
MaxFailures == 1

\* setup_reddit_connection is not called while a script runs.
ResolverIdle ==
    /\ environ = [REDDIT_USERNAME |-> None, REDDIT_PASSWORD |-> None]
    /\ configState = "absent"
    /\ configModule = NoConfigModule
    /\ cryptography = FALSE
    /\ schedule = "sequential"
    /\ service = {}
    /\ pc = [c \in Calls |-> "start"]
    /\ loc = [c \in Calls |-> Unbound]
    /\ log = [c \in Calls |-> << >>]
    /\ stdout = [c \in Calls |-> << >>]
    /\ result = [c \in Calls |-> NoResult]
    /\ raised = [c \in Calls |-> NoExc]
    /\ nextExc = 1

\* The elements of a list.
Range(s) == { s[i] : i \in DOMAIN s }

\* The subsets of S with at most n elements.
RECURSIVE AtMost(_, _)
AtMost(S, n) ==
    IF n = 0 THEN { {} }
    ELSE LET smaller == AtMost(S, n - 1)
         IN smaller \cup { T \cup {x} : T \in smaller, x \in S }

\* One call a script makes of the interpreter or of another program: what
\* it runs, on what, and whether it returned (TRUE) or ended with the
\* error the script handles (FALSE).
Call(op, arg, ok) == [op |-> op, arg |-> arg, ok |-> ok]

\* The arguments, in order, of the calls of op; of those that failed.
RECURSIVE ArgsOf(_, _)
ArgsOf(calls, op) ==
    IF calls = << >> THEN << >>
    ELSE (IF Head(calls).op = op THEN << Head(calls).arg >> ELSE << >>)
         \o ArgsOf(Tail(calls), op)

RECURSIVE FailedArgsOf(_, _)
FailedArgsOf(calls, op) ==
    IF calls = << >> THEN << >>
    ELSE (IF Head(calls).op = op /\ ~Head(calls).ok
          THEN << Head(calls).arg >> ELSE << >>)
         \o FailedArgsOf(Tail(calls), op)

\* The elements of list s that are in set S, in the order of s.
RECURSIVE Keep(_, _)
Keep(s, S) ==
    IF s = << >> THEN << >>
    ELSE (IF Head(s) \in S THEN << Head(s) >> ELSE << >>) \o Keep(Tail(s), S)

---------------------------------------------------------------------------
(* installs_required.py *)

\* min_version of check_python_version.
min_version == << 3, 8 >>

\* sys.version_info[:2] of the interpreter that runs the script.
PythonVersions == { << 2, 9 >>, << 3, 7 >>, << 3, 8 >>, << 4, 0 >> }

\* Python's order on pairs: a < b.
TupleLess(a, b) == a[1] < b[1] \/ (a[1] = b[1] /\ a[2] < b[2])

\* Variant of check_python_version that compares the minor numbers only.
check_python_version_minor(current_version) ==
    ~(current_version[2] < min_version[2])

check_python_version(current_version) ==
    ~TupleLess(current_version, min_version)

core_packages ==
    << "pandas", "matplotlib", "plotly", "mapclassify", "tqdm", "praw",
       "nltk", "spacy", "geoparser", "transformers", "torch", "scipy",
       "cryptography" >>

nltk_data_packages == << "punkt", "vader_lexicon" >>

spacy_models == << "en_core_web_md", "en_core_web_trf" >>

\* How the check of one resource ends: it is there, it is downloaded, or
\* the download fails.
ResourceOutcomes == {"available", "downloaded", "failed"}

\* check_and_install_package: the calls it makes and what it returns, for
\* the packages that can be imported and the way a pip install would end.
check_and_install_package(package_name, importable, pip_ok) ==
    IF package_name \in importable
    THEN [calls    |-> << Call("__import__", package_name, TRUE) >>,
          returned |-> TRUE]
    ELSE [calls    |-> << Call("__import__", package_name, FALSE),
                          Call("pip install", package_name, pip_ok) >>,
          returned |-> pip_ok]

\* The calls of check_and_download_nltk_data for one data package.
NltkDataCalls(package, found) ==
    IF package \in found
    THEN << Call("nltk.data.find", package, TRUE) >>
    ELSE << Call("nltk.data.find", package, FALSE),
            Call("nltk.download", package, TRUE) >>

\* The calls of check_and_download_spacy_model for one model.
SpacyModelCalls(model_name, outcome) ==
    IF outcome = "available"
    THEN << Call("spacy.load", model_name, TRUE) >>
    ELSE << Call("spacy.load", model_name, FALSE),
            Call("spacy download", model_name, outcome = "downloaded") >>

\* The calls of check_and_setup_geoparser once geoparser is imported.
GeoparserCalls(outcome) ==
    IF outcome = "available"
    THEN << Call("geoparser.Geoparser", "geonames", TRUE) >>
    ELSE << Call("geoparser.Geoparser", "geonames", FALSE),
            Call("geoparser download", "geonames", outcome = "downloaded") >>

InitIR ==
    /\ ResolverIdle
    /\ \E v \in PythonVersions, absent \in AtMost(Range(core_packages), MaxMissing) :
          ir = [ pc              |-> "start",
                 version         |-> v,
                 importable      |-> Range(core_packages) \ absent,
                 i               |-> 1,
                 failed_packages |-> << >>,
                 calls           |-> << >>,
                 summary         |-> None,
                 status          |-> 0 ]
    /\ ms = NotStarted
    /\ ss = NotStarted

\* main, lines 128-130: the version check and the abort.
IrCheckPythonVersion ==
    /\ ir.pc = "start"
    /\ ir' = IF check_python_version(ir.version)
             THEN [ir EXCEPT !.pc = "packages"]
             ELSE [ir EXCEPT !.pc = "exited", !.status = 1]
    /\ UNCHANGED << resolver, ms, ss >>

\* Variant of IrCheckAndInstallPackage in which the first package that
\* cannot be installed ends the loop.
IrCheckAndInstallPackageStops ==
    /\ ir.pc = "packages"
    /\ ir.i <= Len(core_packages)
    /\ LET package == core_packages[ir.i] IN
       \E pip_ok \in (IF package \in ir.importable THEN {TRUE} ELSE BOOLEAN) :
          LET r == check_and_install_package(package, ir.importable, pip_ok)
          IN ir' = [ir EXCEPT
                      !.calls = @ \o r.calls,
                      !.importable = IF r.returned THEN @ \cup {package} ELSE @,
                      !.failed_packages =
                          IF r.returned THEN @ ELSE Append(@, package),
                      !.i = IF r.returned THEN @ + 1 ELSE Len(core_packages) + 1]
    /\ UNCHANGED << resolver, ms, ss >>

\* main, lines 167-169: one turn of the loop over core_packages.
IrCheckAndInstallPackage ==
    /\ ir.pc = "packages"
    /\ ir.i <= Len(core_packages)
    /\ LET package == core_packages[ir.i] IN
       \E pip_ok \in (IF package \in ir.importable THEN {TRUE} ELSE BOOLEAN) :
          LET r == check_and_install_package(package, ir.importable, pip_ok)
          IN ir' = [ir EXCEPT
                      !.calls = @ \o r.calls,
                      !.importable = IF r.returned THEN @ \cup {package} ELSE @,
                      !.failed_packages =
                          IF r.returned THEN @ ELSE Append(@, package),
                      !.i = @ + 1]
    /\ UNCHANGED << resolver, ms, ss >>

\* main, line 175: check_and_download_nltk_data, after the loop.
IrCheckAndDownloadNltkData ==
    /\ ir.pc = "packages"
    /\ ir.i > Len(core_packages)
    /\ IF "nltk" \in ir.importable
       THEN \E found \in SUBSET Range(nltk_data_packages) :
               ir' = [ir EXCEPT
                        !.calls = @ \o << Call("import", "nltk", TRUE) >>
                                    \o NltkDataCalls(nltk_data_packages[1], found)
                                    \o NltkDataCalls(nltk_data_packages[2], found),
                        !.pc = "spacy"]
       ELSE ir' = [ir EXCEPT
                     !.calls = Append(@, Call("import", "nltk", FALSE)),
                     !.pc = "spacy"]
    /\ UNCHANGED << resolver, ms, ss >>

\* main, line 178: check_and_download_spacy_model.
IrCheckAndDownloadSpacyModel ==
    /\ ir.pc = "spacy"
    /\ IF "spacy" \in ir.importable
       THEN \E o \in [Range(spacy_models) -> ResourceOutcomes] :
               ir' = [ir EXCEPT
                        !.calls = @ \o << Call("import", "spacy", TRUE) >>
                                    \o SpacyModelCalls(spacy_models[1], o[spacy_models[1]])
                                    \o SpacyModelCalls(spacy_models[2], o[spacy_models[2]]),
                        !.pc = "geoparser"]
       ELSE ir' = [ir EXCEPT
                     !.calls = Append(@, Call("import", "spacy", FALSE)),
                     !.pc = "geoparser"]
    /\ UNCHANGED << resolver, ms, ss >>

\* main, line 181: check_and_setup_geoparser.
IrCheckAndSetupGeoparser ==
    /\ ir.pc = "geoparser"
    /\ IF "geoparser" \in ir.importable
       THEN \E o \in ResourceOutcomes :
               ir' = [ir EXCEPT
                        !.calls = @ \o << Call("import", "geoparser", TRUE) >>
                                    \o GeoparserCalls(o),
                        !.pc = "summary"]
       ELSE ir' = [ir EXCEPT
                     !.calls = Append(@, Call("import", "geoparser", FALSE)),
                     !.pc = "summary"]
    /\ UNCHANGED << resolver, ms, ss >>

\* main, lines 183-206: the summary; main returns.
IrSummary ==
    /\ ir.pc = "summary"
    /\ ir' = [ir EXCEPT
                !.summary = IF ir.failed_packages # << >>
                            THEN "Failed to install"
                            ELSE "All packages installed successfully!",
                !.pc = "done"]
    /\ UNCHANGED << resolver, ms, ss >>

NextIR ==
    \/ IrCheckPythonVersion
    \/ IrCheckAndInstallPackage
    \/ IrCheckAndDownloadNltkData
    \/ IrCheckAndDownloadSpacyModel
    \/ IrCheckAndSetupGeoparser
    \/ IrSummary

SpecIR == InitIR /\ [][NextIR]_vars

\* C28: installs_required.main ends by sys.exit(1) when the interpreter's
\* version is below 3.8, and then before it imported, installed or
\* downloaded anything; with version 3.8 or higher it never exits with a
\* non-zero status, whatever package fails to install.
C28_AbortsOnlyBelowMinimum ==
    LET below == ir.version[1] < 3 \/ (ir.version[1] = 3 /\ ir.version[2] < 8)
    IN /\ (below /\ ir.pc # "start") =>
              (ir.pc = "exited" /\ ir.status = 1 /\ ir.calls = << >>)
       /\ ~below => (ir.pc # "exited" /\ ir.status = 0)

\* Python 2.9, whose minor number alone would pass, is turned away.
C28_Witness ==
    /\ ir.pc = "exited"
    /\ ir.status = 1
    /\ ir.version = << 2, 9 >>

\* C29: once the version check has passed, the packages handed to
\* check_and_install_package are the packages of core_packages before the
\* loop's position, each once and in list order, and all of them once the
\* loop is over, whichever failed; every pip install directly follows the
\* failed import of the same package; failed_packages is the list of the
\* packages whose pip install failed, in list order.
C29_EveryPackageOnce ==
    ir.pc \notin {"start", "exited"} =>
        /\ ArgsOf(ir.calls, "__import__") = SubSeq(core_packages, 1, ir.i - 1)
        /\ ir.pc # "packages" => ir.i = Len(core_packages) + 1
        /\ \A k \in DOMAIN ir.calls :
              ir.calls[k].op = "pip install" =>
                 /\ k > 1
                 /\ ir.calls[k - 1] = Call("__import__", ir.calls[k].arg, FALSE)
        /\ ir.failed_packages = FailedArgsOf(ir.calls, "pip install")
        /\ ir.failed_packages = Keep(core_packages, Range(ir.failed_packages))

\* The first package failed to install and the last one was installed
\* after it.
C29_Witness ==
    /\ ir.pc = "done"
    /\ ir.failed_packages = << "pandas" >>
    /\ \E k \in DOMAIN ir.calls :
          ir.calls[k] = Call("pip install", "cryptography", TRUE)

---------------------------------------------------------------------------
(* manual_setup.py *)

\* venv_name of main, and the interpreter of that environment.
manual_venv_name == "ds101_manual"

manual_python_exe == "ds101_manual/bin/python"

manual_kernel_name == "ds101-manual"

\* packages of main.
manual_setup_packages ==
    << "ipykernel", "jupyter", "jupyterlab", "ipywidgets", "notebook",
       "pandas", "numpy", "plotly", "mapclassify", "tqdm", "praw", "nltk",
       "spacy", "geoparser", "transformers", "torch", "cryptography",
       "requests" >>

\* The NLP helpers main calls in lines 380-385, in order.
manual_nlp_setups ==
    << "setup_nltk_data_in_venv", "setup_spacy_models_in_venv",
       "setup_geoparser_in_venv", "setup_roberta_model_in_venv" >>

\* One call of each helper of the list fs, each ending well iff it is in
\* succeeded.  Every helper catches the error of its subprocess and main
\* does not look at what it returns.
RECURSIVE SetupCalls(_, _, _)
SetupCalls(fs, python_exe, succeeded) ==
    IF fs = << >> THEN << >>
    ELSE << Call(Head(fs), python_exe, Head(fs) \in succeeded) >>
         \o SetupCalls(Tail(fs), python_exe, succeeded)

\* The import probes of check_packages_installed, one per package.
RECURSIVE ImportProbes(_, _)
ImportProbes(packages, installed) ==
    IF packages = << >> THEN << >>
    ELSE << Call("import", Head(packages), Head(packages) \in installed) >>
         \o ImportProbes(Tail(packages), installed)

\* check_packages_installed: the probes it runs and the list it returns,
\* for the set of packages that can be imported in the environment.
check_packages_installed(python_exe, packages, installed) ==
    [ calls            |-> ImportProbes(packages, installed),
      missing_packages |-> Keep(packages, Range(packages) \ installed) ]

\* The pip installs of the calls that failed.
PipFailures(calls) == Len(FailedArgsOf(calls, "pip install"))

InitMS ==
    /\ ResolverIdle
    /\ ir = NotStarted
    /\ ss = NotStarted
    /\ \E dir \in BOOLEAN, works \in BOOLEAN,
          absent \in AtMost(Range(manual_setup_packages), MaxMissing) :
          /\ works => dir
          /\ ~works => absent = {}
          /\ ms = [ pc                  |-> "start",
                    dir_existed         |-> dir,
                    python_worked       |-> works,
                    installed           |-> IF works
                                            THEN Range(manual_setup_packages) \ absent
                                            ELSE {},
                    env_exists          |-> FALSE,
                    missing_packages    |-> << >>,
                    packages_to_install |-> << >>,
                    bound               |-> FALSE,
                    i                   |-> 1,
                    calls               |-> << >>,
                    settings            |-> None,
                    exception           |-> None ]

\* Variant of MsCheckEnvironment that takes an existing directory for a
\* working environment without running its Python.
MsCheckEnvironmentTrustsDirectory ==
    /\ ms.pc = "start"
    /\ ms' = [ms EXCEPT !.env_exists = ms.dir_existed,
                        !.pc = "create"]
    /\ UNCHANGED << resolver, ir, ss >>

\* main, lines 210-234: does the directory exist and does its Python run.
MsCheckEnvironment ==
    /\ ms.pc = "start"
    /\ ms' = [ms EXCEPT
                !.env_exists = ms.dir_existed /\ ms.python_worked,
                !.calls = IF ms.dir_existed
                          THEN Append(@, Call("python --version", manual_python_exe,
                                              ms.python_worked))
                          ELSE @,
                !.pc = "create"]
    /\ UNCHANGED << resolver, ir, ss >>

\* main, lines 236-245: remove a broken environment, create a new one.
MsCreateEnvironment ==
    /\ ms.pc = "create"
    /\ ms' = [ms EXCEPT
                !.calls = IF ms.env_exists THEN @
                          ELSE @ \o (IF ms.dir_existed
                                     THEN << Call("shutil.rmtree", manual_venv_name, TRUE) >>
                                     ELSE << >>)
                                 \o << Call("venv.create", manual_venv_name, TRUE) >>,
                !.installed = IF ms.env_exists THEN @ ELSE {},
                !.pc = "select"]
    /\ UNCHANGED << resolver, ir, ss >>

\* main, lines 318-328: which packages to install.  packages_to_install is
\* assigned in two of the three branches only.
MsSelectPackages ==
    /\ ms.pc = "select"
    /\ IF ms.env_exists
       THEN LET r == check_packages_installed(manual_python_exe,
                                              manual_setup_packages, ms.installed)
            IN ms' = [ms EXCEPT
                        !.calls = @ \o r.calls,
                        !.missing_packages = r.missing_packages,
                        !.packages_to_install =
                            IF r.missing_packages = << >> THEN @
                            ELSE r.missing_packages,
                        !.bound = (r.missing_packages # << >>),
                        !.pc = "install"]
       ELSE ms' = [ms EXCEPT
                     !.packages_to_install = manual_setup_packages,
                     !.bound = TRUE,
                     !.pc = "install"]
    /\ UNCHANGED << resolver, ir, ss >>

\* main, line 331 when packages_to_install was never assigned: the read
\* raises UnboundLocalError, which nothing catches.
MsUnboundLocalError ==
    /\ ms.pc = "install"
    /\ ~ms.bound
    /\ ms' = [ms EXCEPT !.exception = "UnboundLocalError", !.pc = "crashed"]
    /\ UNCHANGED << resolver, ir, ss >>

\* main, lines 331-343: one turn of the loop over packages_to_install.
MsInstallPackage ==
    /\ ms.pc = "install"
    /\ ms.bound
    /\ ms.i <= Len(ms.packages_to_install)
    /\ LET package == ms.packages_to_install[ms.i] IN
       \E ok \in (IF PipFailures(ms.calls) < MaxFailures THEN BOOLEAN ELSE {TRUE}) :
          ms' = [ms EXCEPT
                   !.calls = Append(@, Call("pip install", package, ok)),
                   !.installed = IF ok THEN @ \cup {package} ELSE @,
                   !.i = @ + 1]
    /\ UNCHANGED << resolver, ir, ss >>

\* main, lines 345-376: register the kernel unless it is listed, once more
\* if the registration fails.
MsRegisterKernel ==
    /\ ms.pc = "install"
    /\ ms.bound
    /\ ms.i > Len(ms.packages_to_install)
    /\ \E listed \in BOOLEAN, first \in BOOLEAN, second \in BOOLEAN :
          /\ listed => first
          /\ first => second
          /\ ms' = [ms EXCEPT
                      !.calls = @ \o << Call("jupyter kernelspec list",
                                             manual_kernel_name, listed) >>
                                  \o (IF listed THEN << >>
                                      ELSE << Call("ipykernel install",
                                                   manual_kernel_name, first) >>)
                                  \o (IF first THEN << >>
                                      ELSE << Call("ipykernel install",
                                                   manual_kernel_name, second) >>),
                      !.pc = "nlp"]
    /\ UNCHANGED << resolver, ir, ss >>

\* main, lines 378-385: the NLP resources and the RoBERTa model.
MsSetupNlp ==
    /\ ms.pc = "nlp"
    /\ \E succeeded \in SUBSET Range(manual_nlp_setups) :
          ms' = [ms EXCEPT
                   !.calls = @ \o SetupCalls(manual_nlp_setups, manual_python_exe,
                                             succeeded),
                   !.pc = "settings"]
    /\ UNCHANGED << resolver, ir, ss >>

\* main, lines 387-460: write .vscode/settings.json and the final
\* instructions; main returns.
MsWriteSettings ==
    /\ ms.pc = "settings"
    /\ ms' = [ms EXCEPT !.settings = manual_python_exe, !.pc = "done"]
    /\ UNCHANGED << resolver, ir, ss >>

NextMS ==
    \/ MsCheckEnvironment
    \/ MsCreateEnvironment
    \/ MsSelectPackages
    \/ MsUnboundLocalError
    \/ MsInstallPackage
    \/ MsRegisterKernel
    \/ MsSetupNlp
    \/ MsWriteSettings

SpecMS == InitMS /\ [][NextMS]_vars

\* main is past the loop over packages_to_install.
MsPastInstall == ms.pc \in {"nlp", "settings", "done"}

\* C25: in a run of manual_setup.main that finds the environment and a
\* working Python, the packages pip installs are exactly the packages
\* check_packages_installed reported missing, and when it reported none,
\* no package is installed and the run goes on to kernel registration, NLP
\* setup and the settings file instead of ending with an exception.
C25_InstallsOnlyMissing ==
    (ms.dir_existed /\ ms.python_worked /\ ms.pc \notin {"start", "create", "select"}) =>
        /\ MsPastInstall =>
              ArgsOf(ms.calls, "pip install") = ms.missing_packages
        /\ ms.missing_packages = << >> =>
              /\ ArgsOf(ms.calls, "pip install") = << >>
              /\ ms.pc # "crashed"
              /\ ms.exception = None
              /\ ms.pc = "done" => ms.settings = manual_python_exe

\* The environment exists, its Python works, every package is installed,
\* and the run has ended with UnboundLocalError before kernel registration.
C25_Witness ==
    /\ ms.dir_existed
    /\ ms.python_worked
    /\ ms.installed = Range(manual_setup_packages)
    /\ ms.pc = "crashed"
    /\ ms.exception = "UnboundLocalError"
    /\ ArgsOf(ms.calls, "jupyter kernelspec list") = << >>
    /\ ms.settings = None

\* C27: when the directory exists and its Python does not run, the
\* directory is removed, then a new environment is created, and the list
\* to install is the full package list, every package of which is handed
\* to pip; when the directory exists and its Python runs, the environment
\* is never removed and never created again.
C27_BrokenEnvironmentIsRebuilt ==
    /\ (ms.dir_existed /\ ~ms.python_worked /\ ms.pc \notin {"start", "create"}) =>
          /\ \E j, k \in DOMAIN ms.calls :
                /\ j < k
                /\ ms.calls[j] = Call("shutil.rmtree", manual_venv_name, TRUE)
                /\ ms.calls[k] = Call("venv.create", manual_venv_name, TRUE)
          /\ ms.pc # "select" =>
                /\ ms.bound
                /\ ms.packages_to_install = manual_setup_packages
          /\ ArgsOf(ms.calls, "import") = << >>
          /\ MsPastInstall =>
                ArgsOf(ms.calls, "pip install") = manual_setup_packages
          /\ ms.pc # "crashed"
    /\ (ms.dir_existed /\ ms.python_worked) =>
          /\ ArgsOf(ms.calls, "shutil.rmtree") = << >>
          /\ ArgsOf(ms.calls, "venv.create") = << >>

\* A broken environment was replaced and the run reached its end with all
\* eighteen packages handed to pip, one of them failing.
C27_Witness ==
    /\ ms.dir_existed
    /\ ~ms.python_worked
    /\ ms.pc = "done"
    /\ ArgsOf(ms.calls, "shutil.rmtree") = << manual_venv_name >>
    /\ ArgsOf(ms.calls, "pip install") = manual_setup_packages
    /\ FailedArgsOf(ms.calls, "pip install") = << "torch" >>

---------------------------------------------------------------------------
(* simple_setup.py *)

\* venv_name of main, what get_venv_python returns for it, kernel_name.
simple_venv_name == "ds101_env"

simple_venv_python == "ds101_env/bin/python"

simple_kernel_name == "python3-ds101"

\* packages of main.
simple_setup_packages ==
    << "ipykernel", "jupyter", "jupyterlab", "ipywidgets", "notebook",
       "pandas", "numpy", "matplotlib", "seaborn", "plotly", "mapclassify",
       "tqdm", "praw", "nltk", "spacy", "geoparser", "transformers", "torch",
       "scipy", "scikit-learn", "cryptography", "requests" >>

\* The NLP helpers main calls in lines 545-547, in order.
simple_nlp_setups ==
    << "setup_nltk_data_in_venv", "setup_spacy_models_in_venv",
       "setup_geoparser_in_venv" >>

\* How a subprocess started by run_command ends.
RunOutcomes == {"ok", "CalledProcessError", "Exception"}

\* run_command: the call and what it returns.  Both handlers return False.
run_command(cmd, arg, outcome) ==
    [ calls    |-> << Call(cmd, arg, outcome = "ok") >>,
      returned |-> (outcome = "ok") ]

\* How create_virtual_environment ends: the environment is created, or
\* removing the old directory raises, or venv.create raises.
VenvOutcomes == {"created", "rmtree raises", "create raises"}

\* create_virtual_environment: the calls and what it returns.
create_virtual_environment(venv_path, dir_existed, outcome) ==
    [ calls    |-> (IF dir_existed
                    THEN << Call("shutil.rmtree", venv_path, outcome # "rmtree raises") >>
                    ELSE << >>)
                   \o (IF outcome = "rmtree raises" THEN << >>
                       ELSE << Call("venv.create", venv_path, outcome = "created") >>),
      returned |-> (outcome = "created") ]

\* install_package_in_venv: the call and what it returns.
install_package_in_venv(venv_python, package_name, ok) ==
    [ calls    |-> << Call("pip install", package_name, ok) >>,
      returned |-> ok ]

\* verify_kernel_installation: the call and what it returns.  The function
\* ends at the `return False` of line 835 at the latest; the statements
\* written after it, lines 837-973, are never executed.
verify_kernel_installation(kernel_name, found) ==
    [ calls    |-> << Call("jupyter kernelspec list", kernel_name, found) >>,
      returned |-> found ]

InitSS ==
    /\ ResolverIdle
    /\ ir = NotStarted
    /\ ms = NotStarted
    /\ \E dir \in BOOLEAN :
          ss = [ pc              |-> "start",
                 dir_existed     |-> dir,
                 i               |-> 1,
                 failed_packages |-> << >>,
                 calls           |-> << >>,
                 notebook        |-> None,
                 settings        |-> None,
                 summary         |-> None,
                 status          |-> 0 ]

\* main, lines 425-433: Step 1.
SsCreateVirtualEnvironment ==
    /\ ss.pc = "start"
    /\ \E outcome \in VenvOutcomes :
          /\ outcome = "rmtree raises" => ss.dir_existed
          /\ LET r == create_virtual_environment(simple_venv_name, ss.dir_existed,
                                                 outcome)
             IN ss' = IF r.returned
                      THEN [ss EXCEPT !.calls = @ \o r.calls, !.pc = "pip"]
                      ELSE [ss EXCEPT !.calls = @ \o r.calls,
                                      !.pc = "exited", !.status = 1]
    /\ UNCHANGED << resolver, ir, ms >>

\* Variant of SsUpgradePip in which a failed upgrade ends the run.
SsUpgradePipOrExit ==
    /\ ss.pc = "pip"
    /\ \E outcome \in RunOutcomes :
          LET r == run_command("pip install --upgrade", "pip", outcome)
          IN ss' = IF r.returned
                   THEN [ss EXCEPT !.calls = @ \o r.calls, !.pc = "packages"]
                   ELSE [ss EXCEPT !.calls = @ \o r.calls,
                                   !.pc = "exited", !.status = 1]
    /\ UNCHANGED << resolver, ir, ms >>

\* main, lines 435-437: Step 2.  What run_command returns is not used.
SsUpgradePip ==
    /\ ss.pc = "pip"
    /\ \E outcome \in RunOutcomes :
          LET r == run_command("pip install --upgrade", "pip", outcome)
          IN ss' = [ss EXCEPT !.calls = @ \o r.calls, !.pc = "packages"]
    /\ UNCHANGED << resolver, ir, ms >>

\* main, lines 483-486: one turn of the loop of Step 3.
SsInstallPackage ==
    /\ ss.pc = "packages"
    /\ ss.i <= Len(simple_setup_packages)
    /\ LET package == simple_setup_packages[ss.i] IN
       \E ok \in (IF PipFailures(ss.calls) < MaxFailures THEN BOOLEAN ELSE {TRUE}) :
          LET r == install_package_in_venv(simple_venv_python, package, ok)
          IN ss' = [ss EXCEPT
                      !.calls = @ \o r.calls,
                      !.failed_packages =
                          IF r.returned THEN @ ELSE Append(@, package),
                      !.i = @ + 1]
    /\ UNCHANGED << resolver, ir, ms >>

\* main, lines 488-541: Step 4, after the loop: register the kernel or
\* exit, update kernel.json when it is there, verify the kernel.
SsRegisterKernel ==
    /\ ss.pc = "packages"
    /\ ss.i > Len(simple_setup_packages)
    /\ \E outcome \in RunOutcomes, updated \in BOOLEAN, found \in BOOLEAN :
          LET r == run_command("ipykernel install", simple_kernel_name, outcome)
              v == verify_kernel_installation(simple_kernel_name, found)
          IN IF r.returned
             THEN ss' = [ss EXCEPT
                           !.calls = @ \o r.calls
                                       \o << Call("kernel.json", simple_kernel_name,
                                                  updated) >>
                                       \o v.calls,
                           !.pc = "nlp"]
             ELSE /\ updated /\ found
                  /\ ss' = [ss EXCEPT !.calls = @ \o r.calls,
                                      !.pc = "exited", !.status = 1]
    /\ UNCHANGED << resolver, ir, ms >>

\* main, lines 543-547: Step 5, the NLP resources.
SsSetupNlp ==
    /\ ss.pc = "nlp"
    /\ \E succeeded \in SUBSET Range(simple_nlp_setups) :
          ss' = [ss EXCEPT
                   !.calls = @ \o SetupCalls(simple_nlp_setups, simple_venv_python,
                                             succeeded),
                   !.pc = "extensions"]
    /\ UNCHANGED << resolver, ir, ms >>

\* main, lines 549-610: the VS Code extensions.  The installs of the
\* extensions are one call here, which ends well iff failed_extensions
\* stays empty; nothing main does later reads that list.
SsInstallExtensions ==
    /\ ss.pc = "extensions"
    /\ \E vscode_cmd \in BOOLEAN, all_ok \in BOOLEAN :
          /\ ~vscode_cmd => all_ok
          /\ ss' = [ss EXCEPT
                      !.calls = @ \o << Call("check_vscode_installed", "code",
                                             vscode_cmd) >>
                                  \o (IF vscode_cmd
                                      THEN << Call("install_vscode_extension",
                                                   "extensions", all_ok) >>
                                      ELSE << >>),
                      !.pc = "notebook"]
    /\ UNCHANGED << resolver, ir, ms >>

\* main, lines 612-798: write test_setup.ipynb; main returns.
SsCreateNotebook ==
    /\ ss.pc = "notebook"
    /\ ss' = [ss EXCEPT !.notebook = "test_setup.ipynb", !.pc = "done"]
    /\ UNCHANGED << resolver, ir, ms >>

NextSS ==
    \/ SsCreateVirtualEnvironment
    \/ SsUpgradePip
    \/ SsInstallPackage
    \/ SsRegisterKernel
    \/ SsSetupNlp
    \/ SsInstallExtensions
    \/ SsCreateNotebook

SpecSS == InitSS /\ [][NextSS]_vars

\* C26: a run of simple_setup.main in which the environment was created
\* and the kernel registered, once it has created the test notebook and
\* returned, has written .vscode/settings.json pointing at the
\* environment's Python and printed the "Setup Complete!" summary.
C26_StepSixIsPerformed ==
    (ss.pc = "done" /\ ss.notebook # None) =>
        /\ ss.settings = simple_venv_python
        /\ ss.summary = "Setup Complete!"

\* The environment was created, the kernel registered, the notebook
\* written and main has returned: no settings file, no summary.
C26_Witness ==
    /\ ss.pc = "done"
    /\ Call("venv.create", simple_venv_name, TRUE) \in Range(ss.calls)
    /\ Call("ipykernel install", simple_kernel_name, TRUE) \in Range(ss.calls)
    /\ ss.notebook = "test_setup.ipynb"
    /\ ss.settings = None
    /\ ss.summary = None

\* The environment could not be created; the kernel could not be
\* registered.
SsVenvFailed ==
    \E k \in DOMAIN ss.calls :
        /\ ss.calls[k].op \in {"shutil.rmtree", "venv.create"}
        /\ ~ss.calls[k].ok

SsKernelFailed ==
    Call("ipykernel install", simple_kernel_name, FALSE) \in Range(ss.calls)

\* C30: simple_setup.main has exited iff creating the environment failed
\* or registering the kernel failed, and then with status 1; in the first
\* case nothing was handed to pip, in the second no NLP helper was called;
\* no other status than 0 is set otherwise, whatever pip upgrade and pip
\* install did; the packages handed to pip are those of the list before
\* the loop's position, each once and in order, and the whole list once
\* the loop is over.
C30_ExitsOnlyOnVenvOrKernel ==
    /\ ss.pc = "exited" <=> (SsVenvFailed \/ SsKernelFailed)
    /\ ss.status = (IF ss.pc = "exited" THEN 1 ELSE 0)
    /\ SsVenvFailed =>
          /\ ArgsOf(ss.calls, "pip install --upgrade") = << >>
          /\ ArgsOf(ss.calls, "pip install") = << >>
    /\ SsKernelFailed =>
          \A k \in DOMAIN ss.calls : ss.calls[k].op \notin Range(simple_nlp_setups)
    /\ ArgsOf(ss.calls, "pip install") = SubSeq(simple_setup_packages, 1, ss.i - 1)
    /\ ss.failed_packages = FailedArgsOf(ss.calls, "pip install")
    /\ (ss.pc \notin {"start", "pip", "packages"} /\ ~SsVenvFailed) =>
          ArgsOf(ss.calls, "pip install") = simple_setup_packages

\* The pip upgrade failed, a package failed to install, and the run went
\* on to its end with status 0.
C30_Witness ==
    /\ ss.pc = "done"
    /\ ss.status = 0
    /\ Call("pip install --upgrade", "pip", FALSE) \in Range(ss.calls)
    /\ ss.failed_packages = << "torch" >>
    /\ ArgsOf(ss.calls, "pip install") = simple_setup_packages
===========================================================================
